---- MODULE Spec2Model ----
(***************************************************************************)
(* A model of the AIHawk resume / cover-letter generator:                  *)
(*   - main.clean_filename (pure string function),                         *)
(*   - utils.chrome_utils.BrowserManager (browser singleton),              *)
(*   - llm_job_parser.LLMParser.parse_job,                                 *)
(*   - main.create_cover_letter / main.create_resume_pdf_job_tailored,     *)
(*   - main.main (API key selection and dispatch).                         *)
(* Python strings are sequences of one-character strings.  Characters      *)
(* outside ASCII are written by their code point, e.g. "u672a".            *)
(***************************************************************************)
EXTENDS Integers, Sequences, FiniteSets, TLC

VARIABLES
    cfName,      \* clean_filename: the argument `name` (None or a string)
    cfParts,     \* clean_filename: number of pieces the argument was built from
    cfOut,       \* clean_filename: the returned string
    cfOut2,      \* clean_filename applied to its own result
    cfPc,        \* "build", "called" (cfOut is set), "again" (cfOut2 is set)
    cfgBrowserType,  \* config.BROWSER_TYPE, lower-cased
    bm,          \* the BrowserManager singleton: driver, is_initialized,
                 \* restart_attempted
    lastInit,    \* the latest initialize_browser call: the types the loop
                 \* visited, the launches and their outcomes, the return value
    lastClose,   \* the latest close call: what driver.quit() did
    gpc,         \* the running or latest get_page_content call
    call,        \* the BrowserManager method the client called last, and how
                 \* it ended
    pj,          \* the running or latest LLMParser.parse_job call
    mn           \* the running or latest run of main

cleanVars == <<cfName, cfParts, cfOut, cfOut2, cfPc>>

browserVars == <<cfgBrowserType, bm, lastInit, lastClose, gpc, call>>

appVars == <<pj, mn>>

vars == <<cfName, cfParts, cfOut, cfOut2, cfPc,
          cfgBrowserType, bm, lastInit, lastClose, gpc, call, pj, mn>>

-----------------------------------------------------------------------------
(* Bounds of the model *)

MaxParts == 3      \* pieces concatenated into a clean_filename argument
LongRun == 49      \* length of the long run of letters among the pieces

-----------------------------------------------------------------------------
(* Python values *)

\* None, where a string may stand: a one-element sequence that is no string
\* of the model (every character of a string is a single character or a code
\* point)
None == <<"None">>

-----------------------------------------------------------------------------
(* String helpers: str methods and re.sub as used by the program *)

Whitespace == {" ", "\t", "\n", "\r"}

\* s[from..] (1-based), the Python slice s[from-1:]
Drop(s, n) == SubSeq(s, n + 1, Len(s))

\* s[:n]
Take(s, n) == SubSeq(s, 1, IF n < Len(s) THEN n ELSE Len(s))

\* s.startswith(p) at offset i (1-based)
MatchAt(s, i, p) ==
    /\ i >= 1
    /\ i + Len(p) - 1 <= Len(s)
    /\ \A k \in 1..Len(p) : s[i + k - 1] = p[k]

StartsWith(s, p) == MatchAt(s, 1, p)

\* s.replace(c, r) for every one-character c in cs, r a one-character string
ReplaceChars(s, cs, r) == [i \in 1..Len(s) |-> IF s[i] \in cs THEN r ELSE s[i]]

\* s.strip(cs): drop the longest prefix and suffix made of characters of cs
StripChars(s, cs) ==
    LET inner == {i \in 1..Len(s) : s[i] \notin cs}
    IN  IF inner = {} THEN <<>>
        ELSE SubSeq(s, CHOOSE i \in inner : \A j \in inner : i <= j,
                       CHOOSE i \in inner : \A j \in inner : j <= i)

\* str.isspace(): non-empty and all characters are whitespace
IsSpace(s) == s # <<>> /\ \A i \in 1..Len(s) : s[i] \in Whitespace

\* re.sub(r'_+', '_', s): every maximal run of underscores becomes one
\* (computed by halves: the run that spans the middle is joined)
RECURSIVE SquashUnderscores(_)
SquashUnderscores(s) ==
    IF Len(s) < 2 THEN s
    ELSE LET half == Len(s) \div 2
             left == SquashUnderscores(SubSeq(s, 1, half))
             right == SquashUnderscores(SubSeq(s, half + 1, Len(s)))
         IN  IF left[Len(left)] = "_" /\ right[1] = "_"
             THEN left \o Tail(right)
             ELSE left \o right

THINK_OPEN == <<"<", "t", "h", "i", "n", "k", ">">>
THINK_CLOSE == <<"<", "/", "t", "h", "i", "n", "k", ">">>

\* the smallest j >= i at which p occurs in s, 0 when there is none
FindFrom(s, i, p) ==
    LET at == {j \in i..Len(s) : MatchAt(s, j, p)}
    IN  IF at = {} THEN 0 ELSE CHOOSE j \in at : \A k \in at : j <= k

\* re.sub(r'<think>.*?</think>', '', s, flags=re.DOTALL): leftmost,
\* non-overlapping, each match running from an opening tag to the nearest
\* closing tag after it
RECURSIVE SubThinkPairs(_)
SubThinkPairs(s) ==
    LET open == FindFrom(s, 1, THINK_OPEN)
        close == FindFrom(s, open + Len(THINK_OPEN), THINK_CLOSE)
    IN  IF open = 0 \/ close = 0 THEN s
        ELSE Take(s, open - 1) \o SubThinkPairs(Drop(s, close + Len(THINK_CLOSE) - 1))

\* re.sub(r'<think>.*', '', s, flags=re.DOTALL): cut at the first open tag
SubThinkTail(s) ==
    IF FindFrom(s, 1, THINK_OPEN) = 0 THEN s
    ELSE Take(s, FindFrom(s, 1, THINK_OPEN) - 1)

-----------------------------------------------------------------------------
(* More of str and re, as the job parser uses them *)

UPPER_LETTERS == <<"A", "B", "C", "D", "E", "F", "G", "H", "I", "J", "K", "L", "M", "N", "O", "P", "Q", "R", "S", "T", "U", "V", "W", "X", "Y", "Z">>
LOWER_LETTERS == <<"a", "b", "c", "d", "e", "f", "g", "h", "i", "j", "k", "l", "m", "n", "o", "p", "q", "r", "s", "t", "u", "v", "w", "x", "y", "z">>
DIGITS == {"0", "1", "2", "3", "4", "5", "6", "7", "8", "9"}

LetterIndex(letters, c) ==
    IF \E i \in 1..Len(letters) : letters[i] = c
    THEN CHOOSE i \in 1..Len(letters) : letters[i] = c
    ELSE 0

LowerChar(c) ==
    IF LetterIndex(UPPER_LETTERS, c) # 0 THEN LOWER_LETTERS[LetterIndex(UPPER_LETTERS, c)] ELSE c

UpperChar(c) ==
    IF LetterIndex(LOWER_LETTERS, c) # 0 THEN UPPER_LETTERS[LetterIndex(LOWER_LETTERS, c)] ELSE c

IsLetter(c) == LetterIndex(UPPER_LETTERS, c) # 0 \/ LetterIndex(LOWER_LETTERS, c) # 0

\* str.lower()
Lower(s) == [i \in 1..Len(s) |-> LowerChar(s[i])]

\* str.title(): a letter after a non-letter is upper-cased, the others lower-cased
Title(s) ==
    [i \in 1..Len(s) |->
        IF i = 1 \/ ~IsLetter(s[i - 1]) THEN UpperChar(s[i]) ELSE LowerChar(s[i])]

\* p in s
Contains(s, p) == FindFrom(s, 1, p) # 0

\* s.split(p, 1)[0]
BeforeFirst(s, p) ==
    IF FindFrom(s, 1, p) = 0 THEN s ELSE Take(s, FindFrom(s, 1, p) - 1)

\* s.split(p, 1)[1], for s that holds p
AfterFirst(s, p) == Drop(s, FindFrom(s, 1, p) + Len(p) - 1)

\* s.split(c) for a one-character separator c
RECURSIVE Split(_, _)
Split(s, c) ==
    IF FindFrom(s, 1, <<c>>) = 0 THEN <<s>>
    ELSE <<BeforeFirst(s, <<c>>)>> \o Split(AfterFirst(s, <<c>>), c)

\* re.sub(r'\s+', ' ', s): every maximal run of whitespace becomes one space
RECURSIVE SquashSpaces(_)
SquashSpaces(s) ==
    IF s = <<>> THEN s
    ELSE IF Len(s) = 1 THEN (IF s[1] \in Whitespace THEN <<" ">> ELSE s)
    ELSE LET half == Len(s) \div 2
             left == SquashSpaces(SubSeq(s, 1, half))
             right == SquashSpaces(SubSeq(s, half + 1, Len(s)))
         IN  IF left[Len(left)] = " " /\ right[1] = " "
             THEN left \o Tail(right)
             ELSE left \o right

\* the digits at the head of s (the match of \d* there)
LeadingDigits(s) ==
    LET stop == {i \in 1..Len(s) : s[i] \notin DIGITS}
    IN  IF stop = {} THEN s
        ELSE Take(s, (CHOOSE i \in stop : \A j \in stop : i <= j) - 1)

-----------------------------------------------------------------------------
(* main.clean_filename *)

NOT_PROVIDED == <<"u672a", "u63d0", "u4f9b">>

illegal_chars == {"\\", "/", ":", "*", "?", "\"", "<", ">", "|"}

\* the character class of the punctuation regex; the full-width marks are
\* written by code point
punctuation_chars ==
    {",", ".", ";", "uff0c", "u3002", "uff1b", "uff01", "uff1f", "!", "?",
     "(", ")", "uff08", "uff09", "[", "]", "u3010", "u3011", "{", "}"}

TRUNCATE_AT == 50
TRUNCATE_KEEP == 47
ELLIPSIS == <<".", ".", ".">>
FILE_PREFIX == <<"f", "i", "l", "e", "_">>

\* lines 38-42: think markers removed, newlines replaced, outer whitespace stripped
cf_strip_markers(name) ==
    StripChars(ReplaceChars(SubThinkTail(SubThinkPairs(name)), {"\n"}, "_"),
               Whitespace)

\* lines 45-59: illegal characters, punctuation and spaces become underscores,
\* runs of underscores are squashed, outer underscores stripped
cf_replace(s) ==
    StripChars(
        SquashUnderscores(
            ReplaceChars(ReplaceChars(ReplaceChars(s, illegal_chars, "_"),
                                      punctuation_chars, "_"),
                         {" "}, "_")),
        {"_"})

\* cf_truncate with the slice one character too long
cf_truncate_keep48(s) ==
    IF Len(s) > TRUNCATE_AT THEN Take(s, TRUNCATE_KEEP + 1) \o ELLIPSIS ELSE s

\* lines 66-67
cf_truncate(s) ==
    IF Len(s) > TRUNCATE_AT THEN Take(s, TRUNCATE_KEEP) \o ELLIPSIS ELSE s

\* lines 70-71
cf_prefix(s) == IF StartsWith(s, <<".">>) THEN FILE_PREFIX \o s ELSE s

clean_filename(name) ==
    IF name = None \/ name = <<>> THEN NOT_PROVIDED
    ELSE LET cleaned == cf_replace(cf_strip_markers(name))
         IN  IF cleaned = <<>> \/ IsSpace(cleaned) THEN NOT_PROVIDED
             ELSE cf_prefix(cf_truncate(cleaned))

-----------------------------------------------------------------------------
(* utils.chrome_utils.BrowserManager *)

MAX_RETRIES == 3

NoDriver == "None"

\* the browsers initialize_browser knows how to launch (lines 66-71)
SupportedBrowsers == {"firefox", "chrome", "edge"}

\* values of config.BROWSER_TYPE the model covers: the supported ones and one
\* the loop skips
BrowserTypes == SupportedBrowsers \cup {"safari"}

\* what launching one browser type does: the driver is created and set up;
\* the driver is created and assigned but setting its timeouts raises;
\* creating the driver raises
LaunchOutcomes == {"ok", "setup_raises", "launch_raises"}

\* BrowserManager.__new__: the attributes a new instance has
new_manager == [driver |-> NoDriver, is_initialized |-> FALSE, restart_attempted |-> FALSE]

\* BrowserManager.__new__ sets driver, is_initialized and restart_attempted
\* and nothing else: the instance has no attribute auto_restart, and no other
\* code of the repository sets one
has_auto_restart == FALSE

NoInit == [visited |-> <<>>, launched |-> <<>>, ret |-> "None"]

NoClose == [quit |-> "None"]

\* browser_types with the two fallbacks in the other order
browser_types_firefox_first(cfg) ==
    <<cfg>> \o (IF cfg \notin {"firefox", "chrome"} THEN <<"firefox">> ELSE <<>>)
            \o (IF cfg # "chrome" THEN <<"chrome">> ELSE <<>>)

\* lines 50-58: the configured type, then chrome, then firefox
browser_types(cfg) ==
    <<cfg>> \o (IF cfg # "chrome" THEN <<"chrome">> ELSE <<>>)
            \o (IF cfg \notin {"firefox", "chrome"} THEN <<"firefox">> ELSE <<>>)

\* lines 62-101: the loop over browser_types from position i on; o gives the
\* outcome of launching each type
RECURSIVE init_loop(_, _, _, _, _)
init_loop(m, types, i, o, log) ==
    IF i > Len(types)
    THEN [bm |-> [m EXCEPT !.is_initialized = FALSE], ret |-> "False",
          visited |-> types, launched |-> log]
    ELSE LET t == types[i] IN
         IF t \notin SupportedBrowsers
         THEN init_loop(m, types, i + 1, o, log)
         ELSE IF o[t] = "ok"
         THEN [bm |-> [m EXCEPT !.driver = t, !.is_initialized = TRUE],
               ret |-> "True",
               visited |-> SubSeq(types, 1, i),
               launched |-> Append(log, <<t, "ok">>)]
         ELSE IF o[t] = "setup_raises"
         THEN init_loop([m EXCEPT !.driver = t], types, i + 1, o,
                        Append(log, <<t, "setup_raises">>))
         ELSE init_loop(m, types, i + 1, o, Append(log, <<t, "launch_raises">>))

\* BrowserManager.initialize_browser
initialize_browser(m, cfg, o) == init_loop(m, browser_types(cfg), 1, o, <<>>)

\* BrowserManager.get_driver: initialises when not initialised, returns driver
get_driver(m, cfg, o) ==
    IF ~m.is_initialized
    THEN LET r == initialize_browser(m, cfg, o)
         IN  [bm |-> r.bm, ret |-> r.bm.driver,
              init |-> [visited |-> r.visited, launched |-> r.launched, ret |-> r.ret]]
    ELSE [bm |-> m, ret |-> m.driver, init |-> NoInit]

\* the state reset of close, lines 823-825
reset_state(m) ==
    [m EXCEPT !.is_initialized = FALSE, !.driver = NoDriver, !.restart_attempted = FALSE]

\* BrowserManager.close: quit is what driver.quit() does ("ok" or "raises").
\* The reset sits in the finally of the handler of a failed quit, so it runs
\* only when quit raised (whether or not driver.close() then raises too).
close(m, quit) ==
    IF m.driver = NoDriver THEN m
    ELSE IF quit = "ok" THEN m
    ELSE reset_state(m)

\* BrowserManager.close_browser delegates to close
close_browser(m, quit) == close(m, quit)

-----------------------------------------------------------------------------
(* BrowserManager.get_page_content *)

\* what driver.page_source holds: its length class (empty; small, under 1000
\* characters; medium, 1000 to 5000; large, over 5000) and whether it holds
\* one of the job-page key words
PageClasses ==
    {[size |-> "empty", kw |-> FALSE]}
    \cup {[size |-> sz, kw |-> k] : sz \in {"small", "medium", "large"}, k \in BOOLEAN}

\* a step of the attempt raising instead of yielding a page
Raises == [size |-> "raises", kw |-> FALSE]

\* what one attempt meets: the visit of the domain root made when cookies are
\* given (line 527), the visit of the target URL (line 561), the steps up to the
\* first read of page_source (lines 563-726), the second read (line 742, made
\* only after a small first read).  A step after one that raises is not run.
AttemptOutcomes ==
    {[pre |-> "raises", load |-> "raises", first |-> Raises, second |-> Raises],
     [pre |-> "ok", load |-> "raises", first |-> Raises, second |-> Raises]}
    \cup UNION {{[pre |-> "ok", load |-> "ok", first |-> f, second |-> sd] :
                    sd \in IF f.size = "small" THEN PageClasses \cup {Raises} ELSE {Raises}} :
                f \in PageClasses \cup {Raises}}

\* what the restart path of a failed last attempt meets: driver.quit() and the
\* launches of initialize_browser.  Without the attribute auto_restart the path
\* is not taken and one value stands for all.
RestartOutcomes ==
    IF has_auto_restart
    THEN {"ok", "raises"} \X [SupportedBrowsers -> LaunchOutcomes]
    ELSE {<<"ok", [t \in SupportedBrowsers |-> "ok"]>>}

NoContent == [attempt |-> 0, read |-> 0, size |-> "None", kw |-> FALSE]

GpcIdle ==
    [status |-> "idle", cookies |-> FALSE, check |-> TRUE, attempt |-> 0,
     loads |-> 0, preloads |-> 0, restarts |-> 0, log |-> <<>>, result |-> NoContent]

\* lines 354-356 and the start of the loop: the browser is initialised when it
\* is not, and a failed initialisation raises
gpc_enter(m, cfg, o, cookies, check) ==
    LET r == IF m.is_initialized
             THEN [bm |-> m, ret |-> "True", visited |-> <<>>, launched |-> <<>>]
             ELSE initialize_browser(m, cfg, o)
    IN  [bm |-> r.bm,
         init |-> IF m.is_initialized THEN NoInit
                  ELSE [visited |-> r.visited, launched |-> r.launched, ret |-> r.ret],
         gpc |-> [GpcIdle EXCEPT !.status = IF r.ret = "True" THEN "running" ELSE "raised",
                                 !.cookies = cookies, !.check = check]]

\* has_next_attempt with the bound off by one
has_next_attempt_one_more(attempt) == attempt < MAX_RETRIES

\* line 766: another attempt follows the failed one
has_next_attempt(attempt) == attempt < MAX_RETRIES - 1

\* the attempt loads the target URL unless the cookie visit raised first
attempt_loads(g, a) == ~(g.cookies /\ a.pre = "raises")

\* lines 726-750: the page source the attempt returns, or Raises
attempt_content(g, a) ==
    IF ~attempt_loads(g, a) \/ a.load = "raises" THEN Raises
    ELSE IF a.first = Raises THEN Raises
    ELSE IF g.check /\ a.first.size = "small"
         THEN IF a.second = Raises THEN Raises
              ELSE [attempt |-> g.attempt + 1, read |-> 2,
                    size |-> a.second.size, kw |-> a.second.kw]
         ELSE [attempt |-> g.attempt + 1, read |-> 1,
               size |-> a.first.size, kw |-> a.first.kw]

\* lines 752-797: the handler of a failed attempt.  quit and o are what
\* closing and re-initialising the browser do on the restart path.
gpc_after_failure(m, g, cfg, quit, o) ==
    IF has_next_attempt(g.attempt)
    THEN [bm |-> m, gpc |-> [g EXCEPT !.attempt = g.attempt + 1]]
    ELSE IF ~has_auto_restart
    THEN \* line 780 reads self.auto_restart: AttributeError leaves the handler
         [bm |-> m, gpc |-> [g EXCEPT !.status = "raised"]]
    ELSE IF ~m.restart_attempted
    THEN LET closed == close_browser([m EXCEPT !.restart_attempted = TRUE], quit)
             r == initialize_browser(closed, cfg, o)
         IN  IF r.ret = "True"
             THEN \* the recursive call: a new loop, its result returned
                  [bm |-> r.bm,
                   gpc |-> [g EXCEPT !.attempt = 0, !.restarts = g.restarts + 1]]
             ELSE [bm |-> r.bm, gpc |-> [g EXCEPT !.status = "returned"]]
    ELSE [bm |-> m, gpc |-> [g EXCEPT !.status = "returned"]]

\* one pass of the retry loop, lines 375-793
gpc_attempt(m, g, cfg, a, quit, o) ==
    LET counted == [g EXCEPT !.preloads = g.preloads + (IF g.cookies THEN 1 ELSE 0),
                             !.loads = g.loads + (IF attempt_loads(g, a) THEN 1 ELSE 0)]
        content == attempt_content(g, a)
    IN  IF content # Raises
        THEN [bm |-> m,
              gpc |-> [counted EXCEPT !.status = "returned", !.result = content,
                                      !.log = Append(g.log, "ok")]]
        ELSE gpc_after_failure(m, [counted EXCEPT !.log = Append(g.log, "raised")],
                               cfg, quit, o)

\* the retry loop takes one pass
GpcAttempt ==
    /\ gpc.status = "running"
    /\ \E a \in AttemptOutcomes, ro \in RestartOutcomes :
          LET r == gpc_attempt(bm, gpc, cfgBrowserType, a, ro[1], ro[2])
          IN  /\ bm' = r.bm
              /\ gpc' = r.gpc
    /\ UNCHANGED <<cfgBrowserType, lastInit, lastClose, call>>
    /\ UNCHANGED <<cleanVars, appVars>>

-----------------------------------------------------------------------------
(* llm_job_parser.LLMParser: text cleaning and the fallbacks of parse_job *)

UNKNOWN_TITLE == <<"u672a", "u77e5", "u804c", "u4f4d">>
UNKNOWN_COMPANY == <<"u672a", "u77e5", "u516c", "u53f8">>
UNKNOWN_ID == <<"u672a", "u77e5", "I", "D">>
CATERPILLAR == <<"C", "a", "t", "e", "r", "p", "i", "l", "l", "a", "r">>

\* the answers _clean_extraction_result treats as no answer (compared lower-cased)
PLACEHOLDERS ==
    {<<"n", "o", "n", "e">>, <<"u", "n", "k", "n", "o", "w", "n">>, <<"n", "o", "t", " ", "f", "o", "u", "n", "d">>, <<"n", "o", "t", " ", "p", "r", "o", "v", "i", "d", "e", "d">>,
     <<"u672a", "u627e", "u5230">>, <<"u672a", "u77e5">>, <<"u65e0">>}

\* the character class [是为：:] of the Chinese prefixes
IS_CHARS == {"u662f", "u4e3a", "uff1a", ":"}

\* common_prefixes, in the order of the list: heads are the literal texts the
\* pattern matches at the start (lower-cased, the match ignores case), cls is
\* the character class that follows the head ({} when there is none; the
\* whitespace after the class is dropped too)
common_prefixes ==
    << [heads |-> {<<"t", "h", "e", " ", "c", "o", "m", "p", "a", "n", "y", " ", "n", "a", "m", "e", " ", "i", "s", " ">>, <<"t", "h", "e", " ", "c", "o", "m", "p", "a", "n", "y", "'", "s", " ", "n", "a", "m", "e", " ", "i", "s", " ">>}, cls |-> {}],
       [heads |-> {<<"t", "h", "e", " ", "c", "o", "m", "p", "a", "n", "y", " ", "i", "s", " ">>}, cls |-> {}],
       [heads |-> {<<"t", "h", "e", " ", "j", "o", "b", " ", "t", "i", "t", "l", "e", " ", "i", "s", " ">>}, cls |-> {}],
       [heads |-> {<<"t", "h", "e", " ", "r", "o", "l", "e", " ", "i", "s", " ">>}, cls |-> {}],
       [heads |-> {<<"t", "h", "e", " ", "p", "o", "s", "i", "t", "i", "o", "n", " ", "i", "s", " ">>}, cls |-> {}],
       [heads |-> {<<"t", "h", "e", " ", "l", "o", "c", "a", "t", "i", "o", "n", " ", "i", "s", " ">>}, cls |-> {}],
       [heads |-> {<<"t", "h", "e", " ", "j", "o", "b", " ", "d", "e", "s", "c", "r", "i", "p", "t", "i", "o", "n", " ", "i", "s", " ">>}, cls |-> {}],
       [heads |-> {<<"u516c", "u53f8", "u540d", "u79f0">>}, cls |-> IS_CHARS],
       [heads |-> {<<"u516c", "u53f8">>}, cls |-> IS_CHARS],
       [heads |-> {<<"u804c", "u4f4d", "u540d", "u79f0">>}, cls |-> IS_CHARS],
       [heads |-> {<<"u804c", "u4f4d">>}, cls |-> IS_CHARS],
       [heads |-> {<<"u5730", "u70b9">>}, cls |-> IS_CHARS],
       [heads |-> {<<"u804c", "u4f4d", "u63cf", "u8ff0">>}, cls |-> IS_CHARS] >>

\* s.lstrip() for the whitespace the model knows
LStripSpace(s) ==
    LET inner == {i \in 1..Len(s) : s[i] \notin Whitespace}
    IN  IF inner = {} THEN <<>>
        ELSE Drop(s, (CHOOSE i \in inner : \A j \in inner : i <= j) - 1)

\* re.sub(prefix, '', s, flags=re.IGNORECASE) for one anchored prefix
sub_prefix(s, p) ==
    LET hit == {h \in p.heads : Lower(Take(s, Len(h))) = h}
    IN  IF hit = {} THEN s
        ELSE LET h == CHOOSE x \in hit : TRUE
             IN  IF p.cls = {} THEN Drop(s, Len(h))
                 ELSE IF Len(s) > Len(h) /\ s[Len(h) + 1] \in p.cls
                 THEN LStripSpace(Drop(s, Len(h) + 1))
                 ELSE s

\* the loop over common_prefixes from position i on
RECURSIVE sub_prefixes(_, _)
sub_prefixes(s, i) ==
    IF i > Len(common_prefixes) THEN s
    ELSE CHOOSE r \in {sub_prefixes(next, i + 1) :
                          next \in {sub_prefix(s, common_prefixes[i])}} : TRUE

\* LLMParser._clean_extraction_result
clean_extraction_result(result) ==
    IF result = <<>> THEN NOT_PROVIDED
    ELSE LET unthought == SubThinkTail(SubThinkPairs(result))
             stripped == StripChars(ReplaceChars(unthought, {"\n"}, " "), Whitespace)
             cleaned == sub_prefixes(SquashSpaces(stripped), 1)
         IN  IF cleaned = <<>> \/ IsSpace(cleaned) \/ Lower(cleaned) \in PLACEHOLDERS
             THEN NOT_PROVIDED
             ELSE cleaned

\* what one call of _extract_information meets is a record of a kind and a
\* text: the page metadata holds the text ("meta"), the LLM answers with the
\* text ("llm"), or the LLM call raises ("llm_error")

\* LLMParser._extract_information: the cleaned metadata text, the cleaned
\* stripped answer, or "" when the LLM call raised
extract_information(e) ==
    IF e.kind = "llm_error" THEN <<>>
    ELSE IF e.kind = "meta" THEN clean_extraction_result(e.raw)
    ELSE clean_extraction_result(StripChars(e.raw, Whitespace))

\* the job id of the mock data: the digits of the first "view/<digits>"
view_job_id(job_url) ==
    LET at == {i \in 1..Len(job_url) :
                  /\ MatchAt(job_url, i, <<"v", "i", "e", "w", "/">>)
                  /\ i + 5 <= Len(job_url)
                  /\ job_url[i + 5] \in DIGITS}
    IN  IF at = {} THEN UNKNOWN_ID
        ELSE LeadingDigits(Drop(job_url, (CHOOSE i \in at : \A j \in at : i <= j) + 4))

\* _create_mock_job_data with the url left empty
create_mock_job_data_no_url(job_url) ==
    [title |-> <<"u8f6f", "u4ef6", "u5de5", "u7a0b", "u5e08">> \o Take(view_job_id(job_url), 4),
     company |-> <<"u6a21", "u62df", "u516c", "u53f8">>,
     description |-> <<"u8fd9", "u662f", "u4e00", "u4e2a", "u6a21", "u62df", "u7684", "u804c", "u4f4d", "u63cf", "u8ff0", "uff0c", "u7531", "u4e8e", "u65e0", "u6cd5", "u8bbf", "u95ee", "u5b9e", "u9645", "u7684", "u804c", "u4f4d", "u9875", "u9762", "u800c", "u751f", "u6210", "u3002">>,
     location |-> <<"u8fdc", "u7a0b">>,
     recruiter |-> <<"u6a21", "u62df", "u62db", "u8058", "u4eba", "u5458">>,
     url |-> <<>>]

\* LLMParser._create_mock_job_data
create_mock_job_data(job_url) ==
    [title |-> <<"u8f6f", "u4ef6", "u5de5", "u7a0b", "u5e08">> \o Take(view_job_id(job_url), 4),
     company |-> <<"u6a21", "u62df", "u516c", "u53f8">>,
     description |-> <<"u8fd9", "u662f", "u4e00", "u4e2a", "u6a21", "u62df", "u7684", "u804c", "u4f4d", "u63cf", "u8ff0", "uff0c", "u7531", "u4e8e", "u65e0", "u6cd5", "u8bbf", "u95ee", "u5b9e", "u9645", "u7684", "u804c", "u4f4d", "u9875", "u9762", "u800c", "u751f", "u6210", "u3002">>,
     location |-> <<"u8fdc", "u7a0b">>,
     recruiter |-> <<"u6a21", "u62df", "u62db", "u8058", "u4eba", "u5458">>,
     url |-> job_url]

\* the domain names that are not taken for a company name
common_domains ==
    {<<"c", "a", "r", "e", "e", "r", "s">>, <<"j", "o", "b", "s">>, <<"c", "a", "r", "e", "e", "r">>, <<"j", "o", "b">>, <<"w", "o", "r", "k">>, <<"a", "p", "p", "l", "y">>}

\* LLMParser._extract_company_from_url
extract_company_from_url(url) ==
    IF url = <<>> THEN <<>>
    ELSE LET lower == Lower(url)
             clean_url == IF StartsWith(lower, <<"h", "t", "t", "p">>) /\ Contains(lower, <<":", "/", "/">>)
                          THEN AfterFirst(lower, <<":", "/", "/">>)
                          ELSE lower
             domain0 == BeforeFirst(clean_url, <<"/">>)
             domain == IF StartsWith(domain0, <<"w", "w", "w", ".">>) THEN Drop(domain0, 4) ELSE domain0
             parts == Split(domain, ".")
             n == Len(parts)
             company ==
                 IF Contains(domain, <<"l", "i", "n", "k", "e", "d", "i", "n", ".", "c", "o", "m">>)
                 THEN IF Contains(clean_url, <<"c", "o", "m", "p", "a", "n", "y", "/">>)
                      THEN Title(ReplaceChars(
                               BeforeFirst(AfterFirst(clean_url, <<"c", "o", "m", "p", "a", "n", "y", "/">>), <<"/">>),
                               {"-"}, " "))
                      ELSE <<>>
                 ELSE IF Contains(domain, <<"i", "n", "d", "e", "e", "d", ".", "c", "o", "m">>)
                 THEN <<"U", "n", "k", "n", "o", "w", "n", " ", "(", "I", "n", "d", "e", "e", "d", ")">>
                 ELSE Title(ReplaceChars(
                          IF n >= 2
                          THEN IF parts[n - 1] \in common_domains /\ n >= 3
                               THEN parts[n - 2]
                               ELSE parts[n - 1]
                          ELSE <<>>,
                          {"-"}, " "))
         IN  IF company = <<>> THEN UNKNOWN_COMPANY ELSE company

\* texts an extraction may meet
RawAnswers ==
    {<<>>,
     <<"N", "o", "n", "e">>,
     <<"T", "h", "e", " ", "c", "o", "m", "p", "a", "n", "y", " ", "i", "s", " ", "A", "c", "m", "e">>,
     <<"<", "t", "h", "i", "n", "k", ">", "x", "<", "/", "t", "h", "i", "n", "k", ">", "T", "h", "e", " ", "r", "o", "l", "e", " ", "i", "s", "\n", "D", "e", "v", " ", " ", "O", "p", "s">>,
     <<"u516c", "u53f8", "uff1a", " ", "A">>}

ExtractOutcomes ==
    {[kind |-> "llm", raw |-> r] : r \in RawAnswers}
    \cup {[kind |-> "meta", raw |-> <<" ", "A", "c", "m", "e", " ", "I", "n", "c", " ">>],
          [kind |-> "llm_error", raw |-> <<>>]}

OtherOutcomes ==
    {[kind |-> "llm", raw |-> <<"R", "e", "m", "o", "t", "e">>],
     [kind |-> "llm_error", raw |-> <<>>]}

SectionTexts == {<<>>, <<"B", "u", "i", "l", "d", " ", "t", "h", "i", "n", "g", "s">>}

\* _extract_information on each of the outcomes, computed once
Extracted == [e \in ExtractOutcomes \cup OtherOutcomes |-> extract_information(e)]

\* what the extractions of one parse_job_html call return: the company and
\* the title each their own text, the other fields one in common; sections
\* is the job description the page sections hold (empty when they hold none)
Extractions ==
    {[company |-> Extracted[c], title |-> Extracted[t], other |-> Extracted[o],
      sections |-> s] :
        c \in ExtractOutcomes, t \in ExtractOutcomes, o \in OtherOutcomes,
        s \in SectionTexts}

\* the values a field of the result can hold when the cleaning loop runs,
\* and _clean_extraction_result on each, computed once
FieldValues ==
    {Extracted[e] : e \in ExtractOutcomes \cup OtherOutcomes}
    \cup SectionTexts \cup {CATERPILLAR}

Cleaned == [v \in FieldValues |-> clean_extraction_result(v)]


\* the result dictionary parse_job_html starts from
EmptyJobInfo ==
    [title |-> <<>>, company |-> <<>>, location |-> <<>>, description |-> <<>>,
     requirements |-> <<>>, responsibilities |-> <<>>, recruiter |-> <<>>,
     date_posted |-> <<>>]

\* the extraction steps of the first try of parse_job_html, by page type
html_steps(job_url) ==
    IF Contains(job_url, <<"l", "i", "n", "k", "e", "d", "i", "n", ".", "c", "o", "m", "/", "j", "o", "b", "s">>)
    THEN <<"sections", "company", "title", "location", "description_if_empty", "recruiter">>
    ELSE IF Contains(job_url, <<"c", "a", "t", "e", "r", "p", "i", "l", "l", "a", "r", ".", "c", "o", "m">>)
    THEN <<"caterpillar_description", "company_or_caterpillar", "title", "location">>
    ELSE <<"company", "title", "location", "description", "requirements">>

\* the extraction steps of the handler of a failed first try
retry_steps == <<"set_company", "set_title", "set_location", "set_description">>

\* one extraction step: ex gives what each extraction returns
html_step(info, step, ex) ==
    LET company == ex.company
        title == ex.title
        other == ex.other
        keep(field, v) == IF v # <<>> THEN [info EXCEPT ![field] = v] ELSE info
    IN  CASE step = "sections" ->
                 IF ex.sections # <<>>
                 THEN [info EXCEPT !.description = ex.sections,
                                   !.requirements = <<>>, !.responsibilities = <<>>]
                 ELSE info
          [] step = "caterpillar_description" -> keep("description", ex.sections)
          [] step = "company" -> keep("company", company)
          [] step = "company_or_caterpillar" ->
                 [info EXCEPT !.company = IF company # <<>> THEN company ELSE CATERPILLAR]
          [] step = "title" -> keep("title", title)
          [] step = "location" -> keep("location", other)
          [] step = "description" -> keep("description", other)
          [] step = "description_if_empty" ->
                 IF info.description = <<>> THEN keep("description", other) ELSE info
          [] step = "recruiter" -> keep("recruiter", other)
          [] step = "requirements" -> keep("requirements", other)
          [] step = "set_company" -> [info EXCEPT !.company = company]
          [] step = "set_title" -> [info EXCEPT !.title = title]
          [] step = "set_location" -> [info EXCEPT !.location = other]
          [] step = "set_description" -> [info EXCEPT !.description = other]

\* the first n steps of a list, one after another
RECURSIVE html_run(_, _, _, _)
html_run(info, steps, n, ex) ==
    IF n = 0 THEN info
    ELSE CHOOSE r \in {html_step(before, steps[n], ex) :
                          before \in {html_run(info, steps, n - 1, ex)}} : TRUE

\* the loop that cleans every value of the result
clean_job_info(info) == [k \in DOMAIN info |-> Cleaned[info[k]]]

\* LLMParser.parse_job_html.  plan.n1 steps of the first try complete before
\* one raises (none raises when n1 is the number of steps); then plan.n2 steps
\* of the handler complete before one raises, and the bare except returns the
\* result as it stands
parse_job_html(job_url, ex, plan) ==
    CHOOSE r \in
        {IF plan.n1 >= Len(steps) THEN clean_job_info(first)
         ELSE CHOOSE r2 \in
                  {IF plan.n2 >= Len(retry_steps) THEN clean_job_info(second) ELSE second :
                      second \in {html_run(first, retry_steps, plan.n2, ex)}} : TRUE :
            steps \in {html_steps(job_url)},
            first \in {html_run(EmptyJobInfo, html_steps(job_url),
                                IF plan.n1 < Len(html_steps(job_url))
                                THEN plan.n1 ELSE Len(html_steps(job_url)), ex)}} : TRUE

\* lines 189-214 of parse_job: the fallbacks and the returned dictionary
job_result(job_url, job_info) ==
    LET company1 == IF job_info.company = <<>>
                    THEN extract_company_from_url(job_url)
                    ELSE job_info.company
        \* the result of parse_job_html has no key 'role'
        title1 == IF job_info.title = <<>> THEN UNKNOWN_TITLE ELSE job_info.title
        title2 == IF title1 = <<>> THEN UNKNOWN_TITLE ELSE title1
        company2 == IF company1 = <<>> THEN UNKNOWN_COMPANY ELSE company1
    IN  [title |-> title2,
         company |-> company2,
         location |-> job_info.location,
         description |-> job_info.description,
         recruiter |-> job_info.recruiter,
         url |-> job_url]

\* a page content as parse_job sees it: None, or a page of a size class that
\* holds one of the key indicators or not
NoHtml == [size |-> "None", kw |-> FALSE]

\* a non-empty page content whose size and key words no longer matter
SomeHtml == [size |-> "some", kw |-> TRUE]

Truthy(html) == html.size \notin {"None", "empty"}

\* what get_page_content handed to its caller: the page, or nothing when it raised
fetched(g) ==
    IF g.status = "returned" THEN [size |-> g.result.size, kw |-> g.result.kw] ELSE NoHtml

\* lines 182-216 of parse_job, from the page content on: raises says that a
\* statement of the try body raised, which the handler turns into mock data
parse_job_from(job_url, html_content, ex, plan, raises) ==
    IF raises \/ ~Truthy(html_content) THEN create_mock_job_data(job_url)
    ELSE CHOOSE r \in {job_result(job_url, job_info) :
                          job_info \in {parse_job_html(job_url, ex, plan)}} : TRUE

\* _get_job_page_content, line 229: the page is fetched the LinkedIn way
is_linkedin_job(url) ==
    /\ Contains(Lower(url), <<"l", "i", "n", "k", "e", "d", "i", "n", ".", "c", "o", "m">>)
    /\ Contains(Lower(url), <<"/", "j", "o", "b", "s", "/">>) \/ Contains(Lower(url), <<"/", "j", "o", "b", "/">>)

\* _get_linkedin_page_content: the selectors waited for, one call each
job_selectors ==
    <<".jobs-description__content", ".job-view-layout", ".jobs-unified-top-card",
      "#job-details", ".jobs-box--fadein">>

NoJob == [none |-> TRUE]

PjIdle ==
    [pc |-> "idle", url |-> <<>>, test_mode |-> FALSE, sel |-> 0, html |-> NoHtml,
     fetches |-> <<>>, result |-> NoJob, company_extracted |-> "None"]

-----------------------------------------------------------------------------
(* main.py: main, create_cover_letter and create_resume_pdf_job_tailored,
   with ResumeFacade.link_to_job and the facade's PDF generation *)

FAKE_API_KEY == "sk-ollama-local-model-no-api-key-required"

\* the configurations the model covers: config.LLM_MODEL_TYPE,
\* config.LLM_API_KEY and the environment's OPENAI_API_KEY (None when unset)
Configurations ==
    {[model_type |-> t, cfg_key |-> "", env_key |-> e] :
        t \in {<<"o", "p", "e", "n", "a", "i">>, <<"O", "p", "e", "n", "A", "I">>}, e \in {"None", ""}}
    \cup {[model_type |-> <<"o", "p", "e", "n", "a", "i">>, cfg_key |-> "sk-config", env_key |-> "None"],
          [model_type |-> <<"O", "p", "e", "n", "A", "I">>, cfg_key |-> "", env_key |-> "sk-env"],
          [model_type |-> <<"o", "l", "l", "a", "m", "a">>, cfg_key |-> "", env_key |-> "None"],
          [model_type |-> <<"a", "z", "u", "r", "e">>, cfg_key |-> "", env_key |-> ""]}

\* GlobalConfig.__init__: MODEL_TYPE of global_config as constructed from
\* the environment's MODEL_TYPE, an unknown type becomes the default
GlobalConfig_MODEL_TYPE(env_model_type) ==
    LET valid_model_types == {<<"o", "l", "l", "a", "m", "a">>, <<"o", "p", "e", "n", "a", "i">>, <<"g", "e", "m", "i", "n", "i">>}
    IN  IF Lower(env_model_type) \in valid_model_types THEN Lower(env_model_type)
        ELSE <<"o", "l", "l", "a", "m", "a">>

\* Python's truth value of an API key: None and '' are false
key_truthy(k) == k \notin {"None", ""}

\* the comparison of line 676 without lower()
is_openai_exact(model_type) == model_type = <<"o", "p", "e", "n", "a", "i">>

\* line 676: cfg.LLM_MODEL_TYPE.lower() == 'openai'
is_openai(model_type) == Lower(model_type) = <<"o", "p", "e", "n", "a", "i">>

\* lines 676-687: cfg.LLM_API_KEY or os.environ.get("OPENAI_API_KEY") for
\* openai, cfg.FAKE_API_KEY otherwise
resolve_api_key(model_type, cfg_key, env_key) ==
    IF is_openai(model_type)
    THEN IF key_truthy(cfg_key) THEN cfg_key ELSE env_key
    ELSE FAKE_API_KEY

\* LLMParser.__init__: raises for openai without a key and for a model type
\* other than ollama, openai and gemini; lib is what constructing the
\* model's client objects does
parser_init(model_type, api_key, lib) ==
    LET t == Lower(model_type) IN
    IF t = <<"o", "l", "l", "a", "m", "a">> THEN lib
    ELSE IF t \in {<<"o", "p", "e", "n", "a", "i">>, <<"g", "e", "m", "i", "n", "i">>}
    THEN IF key_truthy(api_key) THEN lib ELSE "raises"
    ELSE "raises"

\* ResumeFacade._create_mock_job_data
facade_mock_job_data(job_url) ==
    [title |-> <<"u6a21", "u62df", "u804c", "u4f4d", " ", "#">>
                \o (IF view_job_id(job_url) # UNKNOWN_ID THEN Take(view_job_id(job_url), 4)
                    ELSE <<"0", "0", "0", "0">>),
     company |-> <<"u6a21", "u62df", "u516c", "u53f8">>,
     description |-> <<"u8fd9", "u662f", "u4e00", "u4e2a", "u6a21", "u62df", "u7684", "u804c", "u4f4d", "u63cf", "u8ff0", "uff0c", "u7531", "u4e8e", "u65e0", "u6cd5", "u8bbf", "u95ee", "u5b9e", "u9645", "u7684", "u804c", "u4f4d", "u9875", "u9762", "u800c", "u751f", "u6210", "u3002", "\n", " ", " ", " ", " ", " ", " ", " ", " ", " ", " ", " ", " ", "\n", " ", " ", " ", " ", " ", " ", " ", " ", " ", " ", " ", " ", "u804c", "u4f4d", "u8981", "u6c42", ":", "\n", " ", " ", " ", " ", " ", " ", " ", " ", " ", " ", " ", " ", "-", " ", "u719f", "u7ec3", "u638c", "u63e1", "u7f16", "u7a0b", "u8bed", "u8a00", "uff08", "u5982", "P", "y", "t", "h", "o", "n", "u3001", "J", "a", "v", "a", "u6216", "C", "+", "+", "uff09", "\n", " ", " ", " ", " ", " ", " ", " ", " ", " ", " ", " ", " ", "-", " ", "u5177", "u6709", "u826f", "u597d", "u7684", "u6c9f", "u901a", "u80fd", "u529b", "u548c", "u56e2", "u961f", "u534f", "u4f5c", "u7cbe", "u795e", "\n", " ", " ", " ", " ", " ", " ", " ", " ", " ", " ", " ", " ", "-", " ", "u6709", "u89e3", "u51b3", "u590d", "u6742", "u95ee", "u9898", "u7684", "u80fd", "u529b", "\n", " ", " ", " ", " ", " ", " ", " ", " ", " ", " ", " ", " ", "-", " ", "u719f", "u6089", "u8f6f", "u4ef6", "u5f00", "u53d1", "u6d41", "u7a0b", "\n", " ", " ", " ", " ", " ", " ", " ", " ", " ", " ", " ", " ", "\n", " ", " ", " ", " ", " ", " ", " ", " ", " ", " ", " ", " ", "u6211", "u4eec", "u63d0", "u4f9b", ":", "\n", " ", " ", " ", " ", " ", " ", " ", " ", " ", " ", " ", " ", "-", " ", "u6709", "u7ade", "u4e89", "u529b", "u7684", "u85aa", "u8d44", "\n", " ", " ", " ", " ", " ", " ", " ", " ", " ", " ", " ", " ", "-", " ", "u7075", "u6d3b", "u7684", "u5de5", "u4f5c", "u65f6", "u95f4", "\n", " ", " ", " ", " ", " ", " ", " ", " ", " ", " ", " ", " ", "-", " ", "u804c", "u4e1a", "u53d1", "u5c55", "u673a", "u4f1a", "\n", " ", " ", " ", " ", " ", " ", " ", " ", " ", " ", " ", " ", "-", " ", "u53cb", "u597d", "u7684", "u5de5", "u4f5c", "u73af", "u5883", "\n", " ", " ", " ", " ", " ", " ", " ", " ", " ", " ", " ", " ">>,
     location |-> <<"u8fdc", "u7a0b">>,
     recruiter |-> <<"u6a21", "u62df", "u62db", "u8058", "u4eba", "u5458">>,
     url |-> job_url]

\* link_to_job with the role of the Job read from the key 'role'
link_to_job_role_key(job_url, parser, parsed) ==
    LET job_info == IF parser = "raises" THEN facade_mock_job_data(job_url) ELSE parsed
    IN  [ret |-> job_info,
         job |-> [role |-> <<>>, company |-> job_info.company,
                  description |-> job_info.description, location |-> job_info.location,
                  link |-> job_url]]

\* ResumeFacade.link_to_job: parser says whether LLMParser could be built,
\* parsed is what parse_job returned; the value returned and self.job
link_to_job(job_url, parser, parsed) ==
    LET job_info == IF parser = "raises" THEN facade_mock_job_data(job_url) ELSE parsed
    IN  [ret |-> job_info,
         job |-> [role |-> job_info.title, company |-> job_info.company,
                  description |-> job_info.description, location |-> job_info.location,
                  link |-> job_url]]

\* the job URL with the prefix added to every URL that names no scheme
normalize_job_url_any_scheme(job_url) ==
    IF Contains(job_url, <<":", "/", "/">>) THEN job_url ELSE <<"h", "t", "t", "p", "s", ":", "/", "/">> \o job_url

\* lines 156-158: the prefix is added unless the URL starts with it
normalize_job_url(job_url) ==
    IF StartsWith(job_url, <<"h", "t", "t", "p", "s", ":", "/", "/">>) THEN job_url ELSE <<"h", "t", "t", "p", "s", ":", "/", "/">> \o job_url

\* lines 250-262: the names the output directory and file are built from
output_name(value, fallback) ==
    LET name == clean_filename(value)
    IN  IF Lower(name) = <<"u", "n", "k", "n", "o", "w", "n">> \/ name = <<>> THEN fallback ELSE name

\* lines 250-277: where the PDF goes
output_file(fn, job_info) ==
    [root |-> <<"o", "u", "t", "p", "u", "t">>,
     company_name |-> output_name(job_info.company, <<"u", "n", "k", "n", "o", "w", "n", "_", "c", "o", "m", "p", "a", "n", "y">>),
     role_name |-> output_name(job_info.title, <<"u", "n", "k", "n", "o", "w", "n", "_", "p", "o", "s", "i", "t", "i", "o", "n">>),
     content |-> "None",
     suffix |-> IF fn = "create_cover_letter" THEN <<"_", "c", "o", "v", "e", "r", "_", "l", "e", "t", "t", "e", "r", ".", "p", "d", "f">>
                ELSE <<"_", "r", "e", "s", "u", "m", "e", ".", "p", "d", "f">>]

NoFile == [root |-> <<>>]

\* LoggerChatModel.__call__: the reply of the wrapped model, or, when
\* llm.invoke raises, an AIMessage whose content is the error message
logger_chat_model_call(llm) ==
    IF llm = "raises" THEN "api_error_message" ELSE "llm_text"

\* LLMCoverLetterJobDescription.generate_cover_letter: the letter built
\* around the content of the reply, or, when a step raises, the error page
\* of the handler (lines 405-423)
generate_cover_letter(llm) ==
    IF llm = "chain_raises" THEN "error_page"
    ELSE logger_chat_model_call(llm)

\* what the HTML handed to HTML_to_PDF holds; the resume comes from
\* LLMResumeJobDescription
generated_html(fn, llm) ==
    IF fn = "create_cover_letter" THEN generate_cover_letter(llm) ELSE "resume"

\* the exception a failing step of create_cover_letter or
\* create_resume_pdf_job_tailored raises
StepException ==
    [no_parameters |-> "AttributeError", parameters |-> "ValueError",
     read_missing |-> "FileNotFoundError", read_error |-> "UnicodeDecodeError",
     styles |-> "Exception", style |-> "ValueError", no_answers |-> "AttributeError",
     empty_url |-> "ValueError", directories |-> "OSError",
     no_driver |-> "RuntimeError", resume |-> "Exception",
     output_dir |-> "OSError", facade |-> "Exception",
     generate |-> "ValueError", pdf |-> "RuntimeError",
     empty_pdf |-> "ValueError", base64 |-> "binascii.Error",
     final_dir |-> "OSError", write |-> "IOError"]

\* line 293, except Exception: every class a step raises derives from Exception
outer_handles(exc) ==
    exc \in {"Exception", "AttributeError", "ValueError", "FileNotFoundError",
             "UnicodeDecodeError", "OSError", "IOError", "RuntimeError",
             "binascii.Error"}

\* a finally clause that closes the browser after a success only
finally_closes_on_success(driver, ret) == driver # NoDriver /\ ret = "True"

\* lines 301-304: if driver: browser_manager.close()
finally_closes(driver, ret) == driver # NoDriver

\* main has not been started and no function of main.py has been called
MnIdle ==
    [pc |-> "idle", caller |-> "None", model_type |-> <<>>, cfg_key |-> "",
     env_key |-> "None", key_checked |-> FALSE,
     api_key |-> "None", gc_model_type |-> <<>>, status |-> "None",
     prompted |-> FALSE, fn |-> "None", url_asked |-> FALSE, url_in |-> None,
     link_url |-> None, inits |-> 0, driver |-> NoDriver, parser |-> "None",
     failure |-> "none", ret_body |-> "None", ret |-> "None", raised |-> FALSE,
     closes |-> <<>>, written |-> NoFile, told |-> <<>>,
     linked |-> [ret |-> NoJob, job |-> NoJob]]

-----------------------------------------------------------------------------
(* A client of the browser_manager singleton calling its methods *)

NoCall == [op |-> "None", ret |-> "None"]

BrowserIdle ==
    /\ cfgBrowserType \in BrowserTypes
    /\ bm = new_manager
    /\ lastInit = NoInit
    /\ lastClose = NoClose
    /\ gpc = GpcIdle
    /\ call = NoCall
    /\ pj = PjIdle
    /\ mn = MnIdle

CallInitializeBrowser ==
    /\ gpc.status # "running"
    /\ \E o \in [SupportedBrowsers -> LaunchOutcomes] :
          LET r == initialize_browser(bm, cfgBrowserType, o)
          IN  /\ bm' = r.bm
              /\ lastInit' = [visited |-> r.visited, launched |-> r.launched, ret |-> r.ret]
              /\ call' = [op |-> "initialize_browser", ret |-> r.ret]
    /\ lastClose' = NoClose
    /\ gpc' = GpcIdle
    /\ UNCHANGED cfgBrowserType
    /\ UNCHANGED <<cleanVars, appVars>>

CallGetDriver ==
    /\ gpc.status # "running"
    /\ \E o \in [SupportedBrowsers -> LaunchOutcomes] :
          LET r == get_driver(bm, cfgBrowserType, o)
          IN  /\ bm' = r.bm
              /\ lastInit' = r.init
              /\ call' = [op |-> "get_driver", ret |-> r.ret]
    /\ lastClose' = NoClose
    /\ gpc' = GpcIdle
    /\ UNCHANGED cfgBrowserType
    /\ UNCHANGED <<cleanVars, appVars>>

CallClose ==
    /\ gpc.status # "running"
    /\ \E quit \in {"ok", "raises"} :
          /\ bm' = close(bm, quit)
          /\ lastClose' = [quit |-> IF bm.driver = NoDriver THEN "skipped" ELSE quit]
    /\ call' = [op |-> "close", ret |-> "None"]
    /\ lastInit' = NoInit
    /\ gpc' = GpcIdle
    /\ UNCHANGED cfgBrowserType
    /\ UNCHANGED <<cleanVars, appVars>>

CallCloseBrowser ==
    /\ gpc.status # "running"
    /\ \E quit \in {"ok", "raises"} :
          /\ bm' = close_browser(bm, quit)
          /\ lastClose' = [quit |-> IF bm.driver = NoDriver THEN "skipped" ELSE quit]
    /\ call' = [op |-> "close_browser", ret |-> "None"]
    /\ lastInit' = NoInit
    /\ gpc' = GpcIdle
    /\ UNCHANGED cfgBrowserType
    /\ UNCHANGED <<cleanVars, appVars>>

CallGetPageContent ==
    /\ gpc.status # "running"
    /\ \E o \in [SupportedBrowsers -> LaunchOutcomes], cookies \in BOOLEAN,
          check \in BOOLEAN :
          LET r == gpc_enter(bm, cfgBrowserType, o, cookies, check)
          IN  /\ bm' = r.bm
              /\ lastInit' = r.init
              /\ gpc' = r.gpc
    /\ call' = [op |-> "get_page_content", ret |-> "None"]
    /\ lastClose' = NoClose
    /\ UNCHANGED cfgBrowserType
    /\ UNCHANGED <<cleanVars, appVars>>

BrowserInit ==
    /\ BrowserIdle
    /\ cfName = <<>>
    /\ cfParts = 0
    /\ cfOut = <<>>
    /\ cfOut2 = <<>>
    /\ cfPc = "build"

BrowserNext ==
    \/ CallInitializeBrowser
    \/ CallGetDriver
    \/ CallClose
    \/ CallCloseBrowser
    \/ CallGetPageContent
    \/ GpcAttempt

SpecBrowser == BrowserInit /\ [][BrowserNext]_vars

-----------------------------------------------------------------------------
(* LLMParser.parse_job, step by step around its calls of get_page_content *)

\* job URLs handed to parse_job
JobUrls ==
    {<<"h", "t", "t", "p", "s", ":", "/", "/", "w", "w", "w", ".", "l", "i", "n", "k", "e", "d", "i", "n", ".", "c", "o", "m", "/", "j", "o", "b", "s", "/", "v", "i", "e", "w", "/", "1", "2", "3", "4", "5", "6">>,
     <<"h", "t", "t", "p", "s", ":", "/", "/", "w", "w", "w", ".", "L", "i", "n", "k", "e", "d", "I", "n", ".", "c", "o", "m", "/", "c", "o", "m", "p", "a", "n", "y", "/", "f", "o", "o", "-", "b", "a", "r", "/", "j", "o", "b", "/", "v", "i", "e", "w", "/", "1", "2">>,
     <<"h", "t", "t", "p", "s", ":", "/", "/", "c", "a", "t", "e", "r", "p", "i", "l", "l", "a", "r", ".", "c", "o", "m", "/", "j">>,
     <<"h", "t", "t", "p", "s", ":", "/", "/", "c", "a", "r", "e", "e", "r", "s", ".", "a", "c", "m", "e", "-", "c", "o", "r", "p", ".", "c", "o", "m", "/", "x">>,
     <<"h", "t", "t", "p", ":", "/", "/", "i", "n", "d", "e", "e", "d", ".", "c", "o", "m", "/", "v", "i", "e", "w", "j", "o", "b">>,
     <<"l", "o", "c", "a", "l", "h", "o", "s", "t", "/", "v", "i", "e", "w", "/", "x">>,
     <<>>}

\* where the tries of parse_job_html raise: no step raises, or the first try
\* raises after n1 of its steps and the handler after n2 of its own (or not
\* at all)
FailPlans(job_url) ==
    {[n1 |-> Len(html_steps(job_url)), n2 |-> 0]}
    \cup [n1 : 0..(Len(html_steps(job_url)) - 1), n2 : 0..Len(retry_steps)]

LaunchPlans == [SupportedBrowsers -> LaunchOutcomes]

\* a call browser_manager.get_page_content(url, ...) of the parser: no
\* cookies, check_content_size True
pj_fetch(m, cfg, o) == gpc_enter(m, cfg, o, FALSE, TRUE)

\* parse_job up to its first call of get_page_content (lines 171-180, 227-233)
pj_start(m, cfg, o, job_url, test_mode) ==
    IF test_mode
    THEN [bm |-> m, init |-> NoInit, gpc |-> GpcIdle,
          pj |-> [PjIdle EXCEPT !.pc = "done", !.url = job_url, !.test_mode = TRUE,
                                !.result = create_mock_job_data(job_url)]]
    ELSE LET r == pj_fetch(m, cfg, o)
         IN  [bm |-> r.bm, init |-> r.init, gpc |-> r.gpc,
              pj |-> IF is_linkedin_job(job_url)
                     THEN [PjIdle EXCEPT !.pc = "li_selector", !.url = job_url, !.sel = 1,
                                         !.fetches = <<"selector">>]
                     ELSE [PjIdle EXCEPT !.pc = "std", !.url = job_url,
                                         !.fetches = <<"standard">>]]

\* _get_job_page_content has returned: of its locals parse_job keeps the
\* page content, and goes by whether it is empty
pj_have_html(p, html_content) ==
    [p EXCEPT !.pc = "have_html", !.sel = 0, !.fetches = <<>>,
              !.html = IF Truthy(html_content) THEN SomeHtml ELSE NoHtml]

\* after the selector loop, or after the direct fetch: lines 305-337
pj_validate(p, html_content) ==
    IF Truthy(html_content) /\ ~html_content.kw
    THEN [p EXCEPT !.pc = "li_aggressive", !.html = html_content,
                   !.fetches = Append(p.fetches, "aggressive")]
    ELSE pj_have_html(p, html_content)

\* one pass of the selector loop has its page (lines 283-302) and the code
\* runs on to the next call of get_page_content or to the return
pj_after_selector(p, g) ==
    LET html_content == IF g.status = "returned" THEN fetched(g) ELSE p.html
        complete == g.status = "returned" /\ html_content.size = "large"
    IN  IF ~complete /\ p.sel < Len(job_selectors)
        THEN [p EXCEPT !.sel = p.sel + 1, !.html = html_content,
                       !.fetches = Append(p.fetches, "selector")]
        ELSE IF ~Truthy(html_content)
        THEN [p EXCEPT !.pc = "li_direct", !.html = html_content,
                       !.fetches = Append(p.fetches, "direct")]
        ELSE pj_validate(p, html_content)

\* the direct fetch has its page (lines 306-313); when it raised the outer
\* handler returns None
pj_after_direct(p, g) ==
    IF g.status = "raised" THEN pj_have_html(p, NoHtml)
    ELSE pj_validate(p, fetched(g))

\* the aggressive fetch has its page (lines 329-335)
pj_after_aggressive(p, g) == pj_have_html(p, fetched(g))

\* the step a returned get_page_content call leads to
pj_after_fetch(p, g) ==
    CASE p.pc = "std" -> pj_have_html(p, fetched(g))
      [] p.pc = "li_selector" -> pj_after_selector(p, g)
      [] p.pc = "li_direct" -> pj_after_direct(p, g)
      [] p.pc = "li_aggressive" -> pj_after_aggressive(p, g)

FetchPoints == {"std", "li_selector", "li_direct", "li_aggressive"}

\* parser.parse_job(job_url) is called
PjStart ==
    /\ pj.pc = "idle"
    /\ \E job_url \in JobUrls, test_mode \in BOOLEAN, o \in LaunchPlans :
          LET r == pj_start(bm, cfgBrowserType, o, job_url, test_mode)
          IN  /\ bm' = r.bm
              /\ lastInit' = r.init
              /\ gpc' = r.gpc
              /\ pj' = r.pj
    /\ call' = [op |-> "parse_job", ret |-> "None"]
    /\ lastClose' = NoClose
    /\ UNCHANGED <<cfgBrowserType, mn>>
    /\ UNCHANGED cleanVars

\* a call of get_page_content made by the parser is over and the parser runs
\* on to its next call of get_page_content, or to the point where it has the
\* page content
PjFetched ==
    /\ pj.pc \in FetchPoints
    /\ gpc.status \in {"returned", "raised"}
    /\ \E o \in LaunchPlans :
          LET p == pj_after_fetch(pj, gpc)
              r == pj_fetch(bm, cfgBrowserType, o)
          IN  /\ pj' = p
              /\ IF p.pc \in FetchPoints
                 THEN bm' = r.bm /\ lastInit' = r.init /\ gpc' = r.gpc
                 ELSE bm' = bm /\ lastInit' = NoInit /\ gpc' = GpcIdle
    /\ UNCHANGED <<cfgBrowserType, lastClose, call, mn>>
    /\ UNCHANGED cleanVars

\* parse_job has the page content and returns its dictionary;
\* company_extracted notes whether the page gives a usable company name
\* (its metadata or the LLM's answer), "None" when the page is not parsed
PjParse ==
    /\ pj.pc = "have_html"
    /\ \E raises \in BOOLEAN :
          \E ex \in IF raises \/ ~Truthy(pj.html) THEN {<<>>} ELSE Extractions,
             plan \in IF raises \/ ~Truthy(pj.html) THEN {<<>>} ELSE FailPlans(pj.url) :
             pj' = [PjIdle EXCEPT !.pc = "done", !.url = pj.url,
                                  !.test_mode = pj.test_mode,
                                  !.result = parse_job_from(pj.url, pj.html, ex, plan, raises),
                                  !.company_extracted =
                                      IF raises \/ ~Truthy(pj.html) THEN "None"
                                      ELSE IF ex.company \in {<<>>, NOT_PROVIDED} THEN "nothing"
                                      ELSE "usable"]
    /\ UNCHANGED browserVars
    /\ UNCHANGED <<mn>>
    /\ UNCHANGED cleanVars

ParseInit ==
    /\ cfgBrowserType = "chrome"
    /\ bm \in {new_manager,
               initialize_browser(new_manager, cfgBrowserType,
                                  [t \in SupportedBrowsers |-> "ok"]).bm}
    /\ lastInit = NoInit
    /\ lastClose = NoClose
    /\ gpc = GpcIdle
    /\ call = NoCall
    /\ pj = PjIdle
    /\ mn = MnIdle
    /\ cfName = <<>>
    /\ cfParts = 0
    /\ cfOut = <<>>
    /\ cfOut2 = <<>>
    /\ cfPc = "build"

ParseNext ==
    \/ PjStart
    \/ PjFetched
    \/ PjParse
    \/ GpcAttempt

SpecParse == ParseInit /\ [][ParseNext]_vars

-----------------------------------------------------------------------------
(* Runs of main.py *)

StepOutcomes == {"ok", "raises"}

\* launch plans that differ on the types initialize_browser visits
LaunchPlansFor(cfg) ==
    {o \in LaunchPlans :
        \A t \in SupportedBrowsers :
           (\A i \in 1..Len(browser_types(cfg)) : browser_types(cfg)[i] # t) => o[t] = "ok"}

\* what the user answers at the URL prompt: the prompt returns None, or an
\* answer
UrlAnswers ==
    {None, <<>>,
     <<"h", "t", "t", "p", "s", ":", "/", "/", "w", "w", "w", ".", "l", "i", "n", "k", "e", "d", "i", "n", ".", "c", "o", "m", "/", "j", "o", "b", "s", "/", "v", "i", "e", "w", "/", "1", "2", "3", "4", "5", "6">>,
     <<"h", "t", "t", "p", ":", "/", "/", "i", "n", "d", "e", "e", "d", ".", "c", "o", "m", "/", "v", "i", "e", "w", "j", "o", "b">>}

\* what the steps after link_to_job meet: generating the HTML, HTML_to_PDF
\* with the facade's driver, HTML_to_PDF with the default driver (called only
\* after the first raised), creating the final directory, writing the file.
\* A step after one that fails is not run.
PdfResults == {"valid", "invalid", "empty", "raises"}

\* llm is what the model call of the generation does: the wrapped model
\* answers with text, the wrapped model raises, or a step of
\* generate_cover_letter around the call raises
CreateOutcomes ==
    {[gen |-> g, llm |-> "skipped", first |-> "skipped", second |-> "skipped",
      mkdir |-> "skipped", write |-> "skipped"] : g \in {"style", "raises"}}
    \cup UNION {UNION {{[gen |-> "ok", llm |-> l, first |-> f, second |-> sd,
                          mkdir |-> t[1], write |-> t[2]] :
                          l \in {"text", "raises", "chain_raises"},
                          t \in IF "valid" \in {f, sd}
                                THEN {<<"raises", "skipped">>, <<"ok", "raises">>, <<"ok", "ok">>}
                                ELSE {<<"skipped", "skipped">>}} :
                       sd \in IF f = "raises" THEN PdfResults ELSE {"skipped"}} :
                f \in PdfResults}

\* lines 293-306: the value the body returns (None when the exception is
\* not handled), then the finally clause
create_return(m, s, failure, quit) ==
    LET ret_body == IF failure = "none" THEN "True"
                    ELSE IF outer_handles(StepException[failure]) THEN "False"
                    ELSE "None"
        closing == finally_closes(s.driver, ret_body)
    IN  [bm |-> IF closing THEN close(m, quit) ELSE m,
         closed |-> IF closing THEN [quit |-> quit] ELSE NoClose,
         mn |-> [s EXCEPT !.pc = "returned", !.failure = failure,
                          !.ret_body = ret_body, !.ret = ret_body,
                          !.raised = (ret_body = "None"),
                          !.closes = IF closing THEN <<quit>> ELSE <<>>]]

\* main lines 748-761: the handlers and the finally clause of main, and the
\* exit status of the process
main_exit(m, s, status, quit) ==
    [bm |-> close(m, quit),
     closed |-> [quit |-> IF m.driver = NoDriver THEN "skipped" ELSE quit],
     mn |-> [s EXCEPT !.pc = "exited", !.status = status]]

\* main lines 731-747: the directory main tells the user to look in after
\* a success
told_directory(fn, success) ==
    IF success # "True" THEN <<>>
    ELSE IF fn = "create_cover_letter" THEN <<"l", "o", "g", "/", "c", "o", "v", "e", "r", "_", "l", "e", "t", "t", "e", "r", "/">>
    ELSE <<"l", "o", "g", "/", "r", "e", "s", "u", "m", "e", "/">>

\* the function returns; when main called it, main prints its message and
\* ends
create_exit(m, s, failure, quit, quit2) ==
    IF s.caller = "main"
    THEN CHOOSE x \in {main_exit(r.bm, [r.mn EXCEPT !.told = told_directory(r.mn.fn, r.mn.ret)],
                                   "0", quit2) :
                          r \in {create_return(m, s, failure, quit)}} : TRUE
    ELSE create_return(m, s, failure, quit)

\* main lines 662-707: up to the prompt
main_start(m, model_type, cfg_key, env_key, dirs, quit) ==
    LET s == [MnIdle EXCEPT !.caller = "main", !.model_type = model_type,
                            !.cfg_key = cfg_key, !.env_key = env_key,
                            !.gc_model_type = GlobalConfig_MODEL_TYPE(model_type)]
        llm_api_key == resolve_api_key(model_type, cfg_key, env_key)
    IN  IF dirs = "raises" THEN main_exit(m, s, "0", quit)
        ELSE IF is_openai(model_type) /\ ~key_truthy(llm_api_key)
        THEN main_exit(m, [s EXCEPT !.key_checked = TRUE, !.api_key = llm_api_key], "1", quit)
        ELSE [bm |-> m, closed |-> NoClose,
              mn |-> [s EXCEPT !.pc = "prompt", !.key_checked = TRUE,
                               !.api_key = llm_api_key,
                               !.gc_model_type = Lower(model_type),
                               !.prompted = TRUE]]

\* lines 103-143: the checks and reads before the URL prompt
create_begin(parameters, pre) ==
    IF parameters = "None" THEN "no_parameters"
    ELSE IF parameters # "valid" THEN "parameters"
    ELSE pre

\* lines 146-211: from the answer of the URL prompt to the call of
\* link_to_job
create_browse(m, s, cfg, answer, dirs, o1, o2, setup) ==
    LET s1 == [s EXCEPT !.url_asked = TRUE, !.url_in = answer]
        r1 == initialize_browser(m, cfg, o1)
        r2 == get_driver(r1.bm, cfg, o2)
        s2 == [s1 EXCEPT !.link_url = normalize_job_url(answer), !.inits = 1,
                         !.driver = r2.ret]
    IN  IF answer = None THEN [bm |-> m, init |-> NoInit, mn |-> s1, failure |-> "no_answers"]
        ELSE IF answer = <<>> THEN [bm |-> m, init |-> NoInit, mn |-> s1, failure |-> "empty_url"]
        ELSE IF dirs = "raises"
        THEN [bm |-> m, init |-> NoInit,
              mn |-> [s1 EXCEPT !.link_url = normalize_job_url(answer)],
              failure |-> "directories"]
        ELSE [bm |-> r2.bm,
              init |-> IF r2.init = NoInit
                       THEN [visited |-> r1.visited, launched |-> r1.launched, ret |-> r1.ret]
                       ELSE r2.init,
              mn |-> s2,
              failure |-> IF r2.ret = NoDriver THEN "no_driver" ELSE setup]

\* ResumeFacade.create_cover_letter and create_resume_pdf_job_tailored, then
\* lines 225-285: the failing step, "none" when the file is written
create_generate(m, cfg, c, o) ==
    LET fallback == get_driver(m, cfg, o)
        second == IF fallback.ret = NoDriver THEN "raises" ELSE c.second
        result == IF c.first = "raises" THEN second ELSE c.first
    IN  [bm |-> IF c.gen = "ok" /\ c.first = "raises" THEN fallback.bm ELSE m,
         init |-> IF c.gen = "ok" /\ c.first = "raises" THEN fallback.init ELSE NoInit,
         failure |-> IF c.gen = "style" THEN "style"
                     ELSE IF c.gen = "raises" THEN "generate"
                     ELSE IF result = "raises" THEN "pdf"
                     ELSE IF result = "empty" THEN "empty_pdf"
                     ELSE IF result = "invalid" THEN "base64"
                     ELSE IF c.mkdir = "raises" THEN "final_dir"
                     ELSE IF c.write = "raises" THEN "write"
                     ELSE "none"]

\* python main.py
MainStart ==
    /\ mn.pc = "idle"
    /\ \E c \in Configurations, dirs \in StepOutcomes, quit \in StepOutcomes :
          \E r \in {main_start(bm, c.model_type, c.cfg_key, c.env_key, dirs, quit)} :
             /\ bm' = r.bm
             /\ lastClose' = r.closed
             /\ mn' = r.mn
    /\ UNCHANGED <<cfgBrowserType, lastInit, gpc, call, pj>>
    /\ UNCHANGED cleanVars

\* the user answers the prompt of main; a generation function runs up to its
\* URL prompt
MainChoose ==
    /\ mn.pc = "prompt"
    /\ \E action \in {"None", "exit", "create_resume_pdf_job_tailored", "create_cover_letter"},
          pre \in {"none", "read_missing", "read_error", "styles"},
          quit \in StepOutcomes, quit2 \in StepOutcomes :
          IF action \in {"None", "exit"}
          THEN \E r \in {main_exit(bm, mn, "0", quit2)} :
                  bm' = r.bm /\ lastClose' = r.closed /\ mn' = r.mn
          ELSE IF create_begin("valid", pre) # "none"
          THEN \E r \in {create_exit(bm, [mn EXCEPT !.fn = action],
                                     create_begin("valid", pre), quit, quit2)} :
                  bm' = r.bm /\ lastClose' = r.closed /\ mn' = r.mn
          ELSE /\ mn' = [mn EXCEPT !.fn = action, !.pc = "url_prompt"]
               /\ UNCHANGED <<bm, lastClose>>
    /\ UNCHANGED <<cfgBrowserType, lastInit, gpc, call, pj>>
    /\ UNCHANGED cleanVars

\* a caller other than main calls a generation function with parameters that
\* lack a key
DirectCall ==
    /\ mn.pc = "idle"
    /\ \E fn \in {"create_resume_pdf_job_tailored", "create_cover_letter"},
          parameters \in {"None", "no_uploads", "no_outputFileDirectory"},
          llm_api_key \in {"None", "sk-config"} :
          \E r \in {create_exit(bm, [MnIdle EXCEPT !.caller = "direct", !.fn = fn,
                                                   !.api_key = llm_api_key],
                                create_begin(parameters, "none"), "ok", "ok")} :
             bm' = r.bm /\ lastClose' = r.closed /\ mn' = r.mn
    /\ UNCHANGED <<cfgBrowserType, lastInit, gpc, call, pj>>
    /\ UNCHANGED cleanVars

\* the user answers the URL prompt; the function runs on to its return, or
\* into link_to_job and there to the parser's first page load
CreateUrl ==
    /\ mn.pc = "url_prompt"
    /\ \E answer \in UrlAnswers, dirs \in StepOutcomes,
          setup \in {"none", "resume", "output_dir", "facade"},
          o1 \in LaunchPlansFor(cfgBrowserType),
          quit \in StepOutcomes, quit2 \in StepOutcomes :
          \E o2 \in IF initialize_browser(bm, cfgBrowserType, o1).bm.is_initialized
                    THEN {o1} ELSE LaunchPlansFor(cfgBrowserType) :
             \E b \in {create_browse(bm, mn, cfgBrowserType, answer, dirs, o1, o2, setup)} :
                IF b.failure # "none"
                THEN \E r \in {create_exit(b.bm, b.mn, b.failure, quit, quit2)} :
                        /\ bm' = r.bm
                        /\ lastInit' = b.init
                        /\ lastClose' = r.closed
                        /\ mn' = r.mn
                        /\ UNCHANGED <<gpc, pj>>
                ELSE \E lib \in StepOutcomes, test_mode \in BOOLEAN :
                        IF parser_init(b.mn.gc_model_type, b.mn.api_key, lib) = "raises"
                        THEN /\ bm' = b.bm
                             /\ lastInit' = b.init
                             /\ mn' = [b.mn EXCEPT !.pc = "linking", !.parser = "raises"]
                             /\ UNCHANGED <<lastClose, gpc, pj>>
                        ELSE \E o3 \in IF b.bm.is_initialized THEN {o2}
                                        ELSE LaunchPlansFor(cfgBrowserType) :
                             \E r \in {pj_start(b.bm, cfgBrowserType, o3, b.mn.link_url,
                                                test_mode)} :
                                /\ bm' = r.bm
                                /\ lastInit' = IF r.init = NoInit THEN b.init ELSE r.init
                                /\ gpc' = r.gpc
                                /\ pj' = r.pj
                                /\ mn' = [b.mn EXCEPT !.pc = "linking", !.parser = "ok"]
                                /\ UNCHANGED lastClose
    /\ UNCHANGED <<cfgBrowserType, call>>
    /\ UNCHANGED cleanVars

\* link_to_job has its job information (from the parser, or the facade's
\* mock data when the parser could not be built); the function runs on to
\* its return
CreateFinish ==
    /\ mn.pc = "linking"
    /\ mn.parser = "raises" \/ pj.pc = "done"
    /\ \E lk \in {link_to_job(mn.link_url, mn.parser, pj.result)} :
          \E file \in {output_file(mn.fn, lk.ret)} :
             \E c \in CreateOutcomes, quit \in StepOutcomes, quit2 \in StepOutcomes :
                \E o \in IF bm.is_initialized \/ c.first # "raises" THEN {[t \in SupportedBrowsers |-> "ok"]}
                         ELSE LaunchPlansFor(cfgBrowserType) :
                   \E g \in {create_generate(bm, cfgBrowserType, c, o)} :
                      \E r \in {create_exit(g.bm,
                                            [mn EXCEPT !.linked = lk, !.written =
                                                IF g.failure = "none"
                                                THEN [file EXCEPT !.content = generated_html(mn.fn, c.llm)]
                                                ELSE NoFile],
                                            g.failure, quit, quit2)} :
                         /\ bm' = r.bm
                         /\ lastInit' = g.init
                         /\ lastClose' = r.closed
                         /\ mn' = r.mn
    /\ UNCHANGED <<cfgBrowserType, gpc, call, pj>>
    /\ UNCHANGED cleanVars

MainInit ==
    /\ cfgBrowserType = "chrome"
    /\ bm = new_manager
    /\ lastInit = NoInit
    /\ lastClose = NoClose
    /\ gpc = GpcIdle
    /\ call = NoCall
    /\ pj = PjIdle
    /\ mn = MnIdle
    /\ cfName = <<>>
    /\ cfParts = 0
    /\ cfOut = <<>>
    /\ cfOut2 = <<>>
    /\ cfPc = "build"

MainNext ==
    \/ MainStart
    \/ MainChoose
    \/ DirectCall
    \/ CreateUrl
    \/ PjFetched
    \/ PjParse
    \/ GpcAttempt
    \/ CreateFinish

SpecMain == MainInit /\ [][MainNext]_vars

-----------------------------------------------------------------------------
(* Arguments of clean_filename: concatenations of at most MaxParts pieces *)

Pieces ==
    { <<"a">>, <<"_">>, <<" ">>, <<"\n">>, <<"\t">>, <<"/">>, <<".">>,
      <<"<">>, <<"|">>, <<"uff0c">>,
      THINK_OPEN, THINK_CLOSE,
      [i \in 1..LongRun |-> "b"] }

CleanInit ==
    /\ cfName \in {None, <<>>}
    /\ cfParts = 0
    /\ cfOut = <<>>
    /\ cfOut2 = <<>>
    /\ cfPc = "build"
    /\ BrowserIdle
    /\ cfgBrowserType = "chrome"

\* the caller extends the argument by one piece
CleanExtend ==
    /\ cfPc = "build"
    /\ cfName # None
    /\ cfParts < MaxParts
    /\ \E p \in Pieces : cfName' = cfName \o p
    /\ cfParts' = cfParts + 1
    /\ UNCHANGED <<cfOut, cfOut2, cfPc>>
    /\ UNCHANGED <<browserVars, appVars>>

\* cleaned = clean_filename(name)
CleanCall ==
    /\ cfPc = "build"
    /\ cfOut' = clean_filename(cfName)
    /\ cfPc' = "called"
    /\ UNCHANGED <<cfName, cfParts, cfOut2>>
    /\ UNCHANGED <<browserVars, appVars>>

\* clean_filename(cleaned): the function applied to its own result
CleanAgain ==
    /\ cfPc = "called"
    /\ cfOut2' = clean_filename(cfOut)
    /\ cfPc' = "again"
    /\ UNCHANGED <<cfName, cfParts, cfOut>>
    /\ UNCHANGED <<browserVars, appVars>>

CleanNext == CleanExtend \/ CleanCall \/ CleanAgain

SpecClean == CleanInit /\ [][CleanNext]_vars

-----------------------------------------------------------------------------
(* Claims about main.py *)

\* C1: create_cover_letter and create_resume_pdf_job_tailored never propagate
\* an exception; they return False when a step failed or the job could not be
\* parsed (the parser could not be built, or the page was not retrieved or
\* parsing raised, so that the job information is the parser's mock data);
\* they return True only after the PDF has been written
C1_FalseOnEveryFailure ==
    (mn.pc \in {"returned", "exited"} /\ mn.fn # "None") =>
        /\ ~mn.raised
        /\ mn.ret \in {"True", "False"}
        /\ mn.failure # "none" => mn.ret = "False"
        /\ mn.ret = "True" => mn.written # NoFile
        /\ (\/ mn.parser = "raises"
            \/ /\ mn.parser = "ok"
               /\ ~pj.test_mode
               /\ pj.result = create_mock_job_data(pj.url)) => mn.ret = "False"

\* C7: when a driver was obtained, browser_manager.close() has been called
\* once the function has returned, after a success and after a failure, and
\* the value returned is the one the body decided on
C7_CloseBeforeReturn ==
    (mn.pc \in {"returned", "exited"} /\ mn.driver # NoDriver) =>
        /\ Len(mn.closes) = 1
        /\ mn.ret \in {"True", "False"}
        /\ mn.ret = mn.ret_body

\* a later step failed, the browser was closed and driver.quit() raised
C7_Witness ==
    /\ mn.pc \in {"returned", "exited"}
    /\ mn.driver # NoDriver
    /\ mn.failure = "final_dir"
    /\ mn.ret = "False"
    /\ mn.closes = <<"raises">>

C10_EmptyUrlAndHttps ==
    /\ (mn.pc \in {"returned", "exited"} /\ mn.url_asked /\ mn.url_in = <<>>) =>
          /\ mn.ret = "False"
          /\ mn.inits = 0
          /\ bm = new_manager
          /\ mn.parser = "None"
    /\ mn.parser # "None" =>
          /\ Len(mn.url_in) > 0
          /\ StartsWith(mn.link_url, <<"h", "t", "t", "p", "s", ":", "/", "/">>)
          /\ StartsWith(mn.url_in, <<"h", "t", "t", "p", "s", ":", "/", "/">>) => mn.link_url = mn.url_in

\* link_to_job was called with the prefix put before a URL that starts with
\* http://
C10_Witness ==
    /\ mn.parser = "ok"
    /\ StartsWith(mn.url_in, <<"h", "t", "t", "p", ":", "/", "/">>)
    /\ mn.link_url = <<"h", "t", "t", "p", "s", ":", "/", "/">> \o mn.url_in

\* C11: after a success the file is where main tells the user to look:
\* the resume PDF under log/resume/, the cover-letter PDF under
\* log/cover_letter/
C11_FileWhereTold ==
    (mn.pc \in {"returned", "exited"} /\ mn.ret = "True") =>
        /\ mn.fn = "create_resume_pdf_job_tailored" =>
              StartsWith(mn.written.root \o <<"/">>, <<"l", "o", "g", "/", "r", "e", "s", "u", "m", "e", "/">>)
        /\ mn.fn = "create_cover_letter" =>
              StartsWith(mn.written.root \o <<"/">>, <<"l", "o", "g", "/", "c", "o", "v", "e", "r", "_", "l", "e", "t", "t", "e", "r", "/">>)
        /\ mn.caller = "main" => StartsWith(mn.written.root \o <<"/">>, mn.told)

\* C12: when the job page could not be retrieved or parsed (parse_job ended
\* with empty page content or with an exception, which leaves its mock data
\* as the result), the function has returned False and has written no PDF
C12_NoPdfWithoutJobPage ==
    (/\ mn.pc \in {"returned", "exited"}
     /\ mn.parser = "ok"
     /\ pj.pc = "done"
     /\ ~pj.test_mode
     /\ pj.result = create_mock_job_data(pj.url)) =>
        /\ mn.ret = "False"
        /\ mn.written = NoFile

\* C13: create_cover_letter returns True only when the PDF written holds
\* text the LLM produced: not the error message of a failed model call and
\* not the error page of generate_cover_letter
C13_TrueOnlyWithLlmText ==
    (/\ mn.pc \in {"returned", "exited"}
     /\ mn.fn = "create_cover_letter"
     /\ mn.ret = "True") => mn.written.content = "llm_text"

\* C14: once link_to_job has returned, its result is a job-info dictionary,
\* self.job is a Job whose link is the job_url argument and whose role,
\* company, description and location are the title, company, description
\* and location of the result; when the parser could not be built the
\* result is the facade's mock job data for that URL
C14_LinkToJobTotal ==
    (mn.pc \in {"returned", "exited"} /\ mn.parser # "None") =>
        /\ DOMAIN mn.linked.ret =
              {"title", "company", "description", "location", "recruiter", "url"}
        /\ mn.linked.job.link = mn.link_url
        /\ mn.linked.job.role = mn.linked.ret.title
        /\ mn.linked.job.company = mn.linked.ret.company
        /\ mn.linked.job.description = mn.linked.ret.description
        /\ mn.linked.job.location = mn.linked.ret.location
        /\ mn.parser = "raises" =>
              /\ mn.linked.ret.url = mn.link_url
              /\ mn.linked.ret.company = <<"u6a21", "u62df", "u516c", "u53f8">>
              /\ StartsWith(mn.linked.ret.title, <<"u6a21", "u62df", "u804c", "u4f4d", " ", "#">>)

\* the parser could not be built for a LinkedIn URL and the Job carries the
\* mock title with the first four digits of the job id
C14_Witness ==
    /\ mn.pc \in {"returned", "exited"}
    /\ mn.parser = "raises"
    /\ mn.linked.job.link = <<"h", "t", "t", "p", "s", ":", "/", "/", "w", "w", "w", ".", "l", "i", "n", "k", "e", "d", "i", "n", ".", "c", "o", "m", "/", "j", "o", "b", "s", "/", "v", "i", "e", "w", "/", "1", "2", "3", "4", "5", "6">>
    /\ mn.linked.job.role = <<"u6a21", "u62df", "u804c", "u4f4d", " ", "#", "1", "2", "3", "4">>

\* C17: in a run of main, MODEL_TYPE of global_config is one of "ollama",
\* "openai" and "gemini", as constructed and after main has synchronised the
\* application configuration into it
C17_ModelTypeValid ==
    mn.caller = "main" => mn.gc_model_type \in {<<"o", "l", "l", "a", "m", "a">>, <<"o", "p", "e", "n", "a", "i">>, <<"g", "e", "m", "i", "n", "i">>}

-----------------------------------------------------------------------------
(* Claims about LLMParser *)

\* C2: parse_job never raises: whenever it has returned (test mode, page
\* content unavailable, extraction done, an exception during parsing) its
\* result is a dictionary with exactly the keys title, company, location,
\* description, recruiter and url, url is the job_url argument, and title
\* and company are non-empty.
C2_ParseJobTotal ==
    pj.pc = "done" =>
        /\ DOMAIN pj.result
              = {"title", "company", "location", "description", "recruiter", "url"}
        /\ pj.result.url = pj.url
        /\ pj.result.title # <<>>
        /\ pj.result.company # <<>>

\* C2 witness: the page was fetched, both tries of parse_job_html raised
\* before a title or a company was extracted, and parse_job filled the title
\* with its default and the company from the URL
C2_Witness ==
    /\ pj.pc = "done"
    /\ ~pj.test_mode
    /\ pj.url = <<"h", "t", "t", "p", "s", ":", "/", "/", "c", "a", "r", "e", "e", "r", "s", ".", "a", "c", "m", "e", "-", "c", "o", "r", "p", ".", "c", "o", "m", "/", "x">>
    /\ pj.result.title = UNKNOWN_TITLE
    /\ pj.result.company = <<"A", "c", "m", "e", " ", "C", "o", "r", "p">>
    /\ pj.result.url = pj.url

\* C15: when the page was parsed and gives no usable company name, the
\* company of parse_job's result is the name _extract_company_from_url
\* derives from the job URL, and not the placeholder of the cleaning
C15_CompanyFromUrl ==
    (pj.pc = "done" /\ pj.company_extracted = "nothing") =>
        /\ pj.result.company # NOT_PROVIDED
        /\ pj.result.company = extract_company_from_url(pj.url)

\* C16: _get_linkedin_page_content tries the selectors in their listed
\* order, stops at the first one whose content is longer than 5000
\* characters, and when the last selector has gone by without complete
\* content (each attempt raised or gave at most 5000 characters) its next
\* step is the direct fetch without a selector
C16_SelectorsThenDirect ==
    [][(pj.pc = "li_selector" /\ gpc.status \in {"returned", "raised"} /\ pj' # pj) =>
          LET complete == gpc.status = "returned" /\ gpc.result.size = "large"
          IN  /\ complete => pj'.pc \notin {"li_selector", "li_direct"}
              /\ (~complete /\ pj.sel < Len(job_selectors)) =>
                     pj'.pc = "li_selector" /\ pj'.sel = pj.sel + 1
              /\ (~complete /\ pj.sel = Len(job_selectors)) => pj'.pc = "li_direct"]_vars

-----------------------------------------------------------------------------
(* Claims about BrowserManager *)

\* C3: when every one of the MAX_RETRIES attempts of get_page_content raised,
\* get_page_content returns None to its caller and does not raise.
C3_AllAttemptsFailReturnsNone ==
    (/\ gpc.status \in {"returned", "raised"}
     /\ gpc.restarts = 0
     /\ Len(gpc.log) = MAX_RETRIES
     /\ \A i \in 1..Len(gpc.log) : gpc.log[i] = "raised")
    => (gpc.status = "returned" /\ gpc.result = NoContent)

C5_Order(cfg) ==
    IF cfg = "chrome" THEN <<"chrome">>
    ELSE IF cfg = "firefox" THEN <<"firefox", "chrome">>
    ELSE <<cfg, "chrome", "firefox">>

\* C5: initialize_browser tries the configured type, then chrome, then
\* firefox; it stops at the first type whose initialisation succeeds, sets
\* is_initialized and returns True; when every tried type fails it clears
\* is_initialized and returns False; it never raises.
C5_InitializeOrder ==
    call.op = "initialize_browser" =>
        LET order == C5_Order(cfgBrowserType)
            n == Len(lastInit.launched)
            IsSupported(t) == t \in SupportedBrowsers
        IN  /\ lastInit.ret \in {"True", "False"}
            /\ call.ret = lastInit.ret
            /\ Len(lastInit.visited) <= Len(order)
            /\ lastInit.visited = SubSeq(order, 1, Len(lastInit.visited))
            /\ [i \in 1..n |-> lastInit.launched[i][1]]
                  = SelectSeq(lastInit.visited, IsSupported)
            /\ \A i \in 1..(n - 1) : lastInit.launched[i][2] # "ok"
            /\ lastInit.ret = "True" =>
                  /\ n > 0
                  /\ lastInit.launched[n][2] = "ok"
                  /\ bm.is_initialized
                  /\ bm.driver = lastInit.launched[n][1]
            /\ lastInit.ret = "False" =>
                  /\ lastInit.visited = order
                  /\ \A i \in 1..n : lastInit.launched[i][2] # "ok"
                  /\ ~bm.is_initialized

\* C5 witness: edge is configured, edge and chrome fail, firefox succeeds
C5_Witness ==
    /\ call.op = "initialize_browser"
    /\ cfgBrowserType = "edge"
    /\ lastInit.launched
          = << <<"edge", "launch_raises">>, <<"chrome", "setup_raises">>, <<"firefox", "ok">> >>
    /\ lastInit.ret = "True"
    /\ bm.driver = "firefox"

\* C6: after close (or close_browser) returns, on every path, a successful
\* driver.quit() included, is_initialized is False, driver is None and
\* restart_attempted is False.
C6_CloseResetsState ==
    call.op \in {"close", "close_browser"} =>
        /\ ~bm.is_initialized
        /\ bm.driver = NoDriver
        /\ ~bm.restart_attempted

-----------------------------------------------------------------------------
(* Claims about clean_filename *)

\* C8: for every argument (None and the empty string included) clean_filename
\* returns a non-empty string of at most 50 characters holding none of
\* \ / : * ? " < > | and neither a space nor a newline.
C8_CleanFilenameSafe ==
    cfPc # "build" =>
        /\ cfOut # <<>>
        /\ cfOut # None
        /\ Len(cfOut) <= 50
        /\ \A i \in 1..Len(cfOut) :
              cfOut[i] \notin {"\\", "/", ":", "*", "?", "\"", "<", ">", "|", " ", "\n"}

\* C8 witness: an argument holding illegal characters whose cleaned form was
\* longer than 50 characters and came back cut to exactly 50
C8_Witness ==
    /\ cfPc = "called"
    /\ cfName # None
    /\ Len(cfName) > 50
    /\ \E i \in 1..Len(cfName) : cfName[i] \in {"/", "|", "<", " ", "\n"}
    /\ Len(cfOut) = 50

\* C18: clean_filename is idempotent: applied to its own result it returns
\* that result, also when the cleaned form was longer than 50 characters
\* and was truncated
C18_CleanFilenameIdempotent ==
    cfPc = "again" => cfOut2 = cfOut

====
